---- MODULE Spec2Model ----
(***************************************************************************)
(* TurboX: the build pipeline (route extraction, validation, generation,   *)
(* compilation) and the Python runtime route table.                        *)
(*                                                                         *)
(* Python values:  Optional[str] is <<>> (None) or <<s>>; a syntax-tree    *)
(* node is a record with a "kind" field named after its ast class.         *)
(***************************************************************************)
EXTENDS Integers, Sequences, FiniteSets, TLC

VARIABLES
    pc,           \* position of the running program
    tree,         \* the module body parsed so far (top-level statements)
    routes,       \* RouteExtractor.routes
    functions,    \* RouteExtractor.functions
    app_name,     \* RouteExtractor.app_name
    constants,    \* RouteExtractor.constants
    errors,       \* AppValidator.errors as returned to build
    warnings,     \* AppValidator.warnings as returned to build
    generated,    \* the generated .codon file (<<>> until written)
    codon_calls,  \* the subprocess.run calls of this run with their outcome, in order
    python_file_exists, \* Path(python_file).exists()
    exit_status,  \* <<>> while running, <<code>> once the process has exited
    app_routes,   \* TurboX.routes of the Python runtime
    calls,        \* the registrations the runtime has executed, in order
    exchange      \* <<>>, or the last request the runtime handled with its response

vars == <<pc, tree, routes, functions, app_name, constants, errors, warnings,
          generated, codon_calls, python_file_exists, exit_status, app_routes, calls,
          exchange>>

(***************************************************************************)
(* Bounds                                                                  *)
(***************************************************************************)
MaxStmts == 3
MaxVisits == 4
MaxCalls == 3
\* statements of a source the extractor reads, for the decorator forms
MaxDecorated == 3
\* statements of a source that is extracted and then validated
MaxChecked == 3
MaxHandlers == 3
MaxRoutes == 2

(***************************************************************************)
(* Python values and syntax-tree nodes                                     *)
(***************************************************************************)
None == <<>>
Some(s) == <<s>>

NoNode == [kind |-> "None"]
Str(s) == [kind |-> "Constant", type |-> "str", value |-> s]
Num(n) == [kind |-> "Constant", type |-> "int", num |-> n]
Name(id) == [kind |-> "Name", id |-> id]
Attribute(value, attr) == [kind |-> "Attribute", value |-> value, attr |-> attr]
BinOp(left, op, right) == [kind |-> "BinOp", left |-> left, op |-> op, right |-> right]
FormattedValue(value) == [kind |-> "FormattedValue", value |-> value]
JoinedStr(values) == [kind |-> "JoinedStr", values |-> values]
List(elts) == [kind |-> "List", elts |-> elts]
Lambda(body) == [kind |-> "Lambda", body |-> body, lineno |-> 0]
Call(func, args, keywords) ==
    [kind |-> "Call", func |-> func, args |-> args, keywords |-> keywords]
keyword(arg, value) == [arg |-> arg, value |-> value]
arg(name, annotation) == [arg |-> name, annotation |-> annotation]

Assign(targets, value) ==
    [kind |-> "Assign", targets |-> targets, value |-> value, lineno |-> 0]
Import(names) == [kind |-> "Import", names |-> names, lineno |-> 0]
ImportFrom(module, names) ==
    [kind |-> "ImportFrom", module |-> module, names |-> names, lineno |-> 0]
Return(value) == [kind |-> "Return", value |-> value, lineno |-> 0]
Pass == [kind |-> "Pass", lineno |-> 0]
FunctionDef(name, args, body, decorator_list, returns) ==
    [kind |-> "FunctionDef", name |-> name, args |-> args, body |-> body,
     decorator_list |-> decorator_list, returns |-> returns, lineno |-> 0]
AsyncFunctionDef(name, args, body, decorator_list, returns) ==
    [kind |-> "AsyncFunctionDef", name |-> name, args |-> args, body |-> body,
     decorator_list |-> decorator_list, returns |-> returns, lineno |-> 0]

IsFunction(node) == node.kind \in {"FunctionDef", "AsyncFunctionDef"}

\* str(value) of a Constant node's value
PyStr(c) == IF c.type = "str" THEN c.value ELSE ToString(c.num)

\* str.upper() on the decorator names
Upper(s) ==
    CASE s = "get" -> "GET"
      [] s = "post" -> "POST"
      [] s = "put" -> "PUT"
      [] s = "delete" -> "DELETE"
      [] s = "patch" -> "PATCH"
      [] s = "head" -> "HEAD"
      [] s = "options" -> "OPTIONS"
      [] s = "route" -> "ROUTE"
      [] OTHER -> s

\* ast.parse gives every statement its line: decorators come first, then the
\* def line (the lineno of the function), then the body.
RECURSIVE Height(_), HeightSeq(_), Place(_, _), PlaceSeq(_, _)
Height(node) ==
    IF IsFunction(node)
    THEN Len(node.decorator_list) + 1 + HeightSeq(node.body)
    ELSE 1
HeightSeq(body) ==
    IF body = <<>> THEN 0 ELSE Height(Head(body)) + HeightSeq(Tail(body))
Place(node, line) ==
    IF IsFunction(node)
    THEN [node EXCEPT !.lineno = line + Len(node.decorator_list),
                      !.body = PlaceSeq(node.body, line + Len(node.decorator_list) + 1)]
    ELSE IF node.kind = "Assign" /\ node.value.kind = "Lambda"
    THEN [node EXCEPT !.lineno = line, !.value.lineno = line]
    ELSE [node EXCEPT !.lineno = line]
PlaceSeq(body, line) ==
    IF body = <<>> THEN <<>>
    ELSE <<Place(Head(body), line)>> \o PlaceSeq(Tail(body), line + Height(Head(body)))

(***************************************************************************)
(* turbox/build/extractor.py                                               *)
(***************************************************************************)
SUPPORTED_DECORATORS ==
    {"route", "get", "post", "put", "delete", "patch", "head", "options"}

\* The extractor's fields as one value, for the visit_* operators.
Extractor(r, f, a, c) == [routes |-> r, functions |-> f, app_name |-> a, constants |-> c]
NewExtractor == Extractor(<<>>, <<>>, None, <<>>)

\* d[k] = v on a Python dict held as a function
DictSet(d, k, v) == [x \in DOMAIN d \cup {k} |-> IF x = k THEN v ELSE d[x]]
DictGet(d, k) == IF k \in DOMAIN d THEN Some(d[k]) ELSE None

\* ''.join(parts) over Optional[str] parts: None as soon as one part is None
RECURSIVE JoinParts(_)
JoinParts(parts) ==
    IF parts = <<>> THEN Some("")
    ELSE LET rest == JoinParts(Tail(parts))
         IN  IF Head(parts) = None \/ rest = None THEN None
             ELSE Some(Head(parts)[1] \o rest[1])

RECURSIVE _try_evaluate_path(_, _)
_try_evaluate_path(path_node, consts) ==
    IF path_node.kind = "Constant" THEN Some(PyStr(path_node))
    ELSE IF path_node.kind = "BinOp" /\ path_node.op = "Add" THEN
        LET left == _try_evaluate_path(path_node.left, consts)
            right == _try_evaluate_path(path_node.right, consts)
        IN  IF left # None /\ right # None THEN Some(left[1] \o right[1]) ELSE None
    ELSE IF path_node.kind = "JoinedStr" THEN
        JoinParts([i \in DOMAIN path_node.values |->
            LET value == path_node.values[i]
            IN  IF value.kind = "Constant" THEN Some(PyStr(value))
                ELSE IF value.kind = "FormattedValue"
                     THEN _try_evaluate_path(value.value, consts)
                     ELSE Some("")])
    ELSE IF path_node.kind = "Name" THEN DictGet(consts, path_node.id)
    ELSE None

\* methods=[...] of @app.route(): the last methods keyword that is a list wins
RECURSIVE RouteMethods(_, _)
\* Faulty variant: the methods keyword is not read.
RouteMethods_unread(keywords, methods) == methods

RouteMethods(keywords, methods) ==
    IF keywords = <<>> THEN methods
    ELSE LET kw == Head(keywords)
         IN  RouteMethods(Tail(keywords),
                 IF kw.arg = "methods" /\ kw.value.kind = "List"
                 THEN LET elts == SelectSeq(kw.value.elts, LAMBDA elt : elt.kind = "Constant")
                      IN  [i \in DOMAIN elts |-> elts[i].value]
                 ELSE methods)

\* Faulty variant: a decorator reached through a nested attribute is taken
\* like a direct one.
DecoratorRoute_nested(decorator, node, e) ==
    IF decorator.kind # "Call" THEN <<>>
    ELSE IF decorator.func.kind # "Attribute" THEN <<>>
    ELSE IF decorator.func.attr \notin SUPPORTED_DECORATORS THEN <<>>
    ELSE IF /\ decorator.func.value.kind = "Name"
            /\ e.app_name # None
            /\ decorator.func.value.id # e.app_name[1] THEN <<>>
    ELSE LET path == IF decorator.args # <<>>
                     THEN _try_evaluate_path(decorator.args[1], e.constants)
                     ELSE None
             decorator_name == decorator.func.attr
             methods == IF decorator_name = "route"
                        THEN RouteMethods(decorator.keywords, <<"GET">>)
                        ELSE <<Upper(decorator_name)>>
         IN  IF path # None /\ path[1] # ""
             THEN <<[path |-> path[1], methods |-> methods,
                     handler |-> node.name, function |-> node]>>
             ELSE <<>>

\* Faulty variant: the decorator's object is not compared with the app name.
DecoratorRoute_anyobject(decorator, node, e) ==
    IF decorator.kind # "Call" THEN <<>>
    ELSE IF decorator.func.kind # "Attribute" THEN <<>>
    ELSE IF decorator.func.attr \notin SUPPORTED_DECORATORS THEN <<>>
    ELSE IF decorator.func.value.kind # "Name" THEN <<>>
    ELSE LET path == IF decorator.args # <<>>
                     THEN _try_evaluate_path(decorator.args[1], e.constants)
                     ELSE None
             decorator_name == decorator.func.attr
             methods == IF decorator_name = "route"
                        THEN RouteMethods(decorator.keywords, <<"GET">>)
                        ELSE <<Upper(decorator_name)>>
         IN  IF path # None /\ path[1] # ""
             THEN <<[path |-> path[1], methods |-> methods,
                     handler |-> node.name, function |-> node]>>
             ELSE <<>>

\* One pass of the decorator loop: the route this decorator appends, if any.
DecoratorRoute(decorator, node, e) ==
    IF decorator.kind # "Call" THEN <<>>
    ELSE IF decorator.func.kind # "Attribute" THEN <<>>
    ELSE IF decorator.func.attr \notin SUPPORTED_DECORATORS THEN <<>>
    ELSE IF decorator.func.value.kind # "Name" THEN <<>>
    ELSE IF e.app_name # None /\ decorator.func.value.id # e.app_name[1] THEN <<>>
    ELSE LET path == IF decorator.args # <<>>
                     THEN _try_evaluate_path(decorator.args[1], e.constants)
                     ELSE None
             decorator_name == decorator.func.attr
             methods == IF decorator_name = "route"
                        THEN RouteMethods(decorator.keywords, <<"GET">>)
                        ELSE <<Upper(decorator_name)>>
         IN  IF path # None /\ path[1] # ""
             THEN <<[path |-> path[1], methods |-> methods,
                     handler |-> node.name, function |-> node]>>
             ELSE <<>>

\* Faulty variant: the decorator loop is left at the first decorator that
\* gives no route.
RECURSIVE DecoratorRoutes_break(_, _, _)
DecoratorRoutes_break(decorator_list, node, e) ==
    IF decorator_list = <<>> THEN <<>>
    ELSE LET first == DecoratorRoute(Head(decorator_list), node, e)
         IN  IF first = <<>> THEN <<>>
             ELSE first \o DecoratorRoutes_break(Tail(decorator_list), node, e)

RECURSIVE DecoratorRoutes(_, _, _)
DecoratorRoutes(decorator_list, node, e) ==
    IF decorator_list = <<>> THEN <<>>
    ELSE DecoratorRoute(Head(decorator_list), node, e)
         \o DecoratorRoutes(Tail(decorator_list), node, e)

\* Faulty variant: the assigned value is recorded without the test that it
\* is a string literal.
visit_Assign_any(node, e) ==
    LET named == node.targets # <<>> /\ node.targets[1].kind = "Name"
        a == IF /\ node.value.kind = "Call"
                /\ node.value.func.kind = "Name"
                /\ node.value.func.id = "TurboX"
                /\ named
             THEN Some(node.targets[1].id)
             ELSE e.app_name
        c == IF named
             THEN DictSet(e.constants, node.targets[1].id,
                          IF node.value.kind = "Constant" THEN PyStr(node.value) ELSE "")
             ELSE e.constants
    IN  Extractor(e.routes, e.functions, a, c)

\* Faulty variant: a constant keeps the first value assigned to it.
visit_Assign_first(node, e) ==
    LET named == node.targets # <<>> /\ node.targets[1].kind = "Name"
        a == IF /\ node.value.kind = "Call"
                /\ node.value.func.kind = "Name"
                /\ node.value.func.id = "TurboX"
                /\ named
             THEN Some(node.targets[1].id)
             ELSE e.app_name
        c == IF /\ named /\ node.value.kind = "Constant" /\ node.value.type = "str"
                /\ node.targets[1].id \notin DOMAIN e.constants
             THEN DictSet(e.constants, node.targets[1].id, node.value.value)
             ELSE e.constants
    IN  Extractor(e.routes, e.functions, a, c)

\* Faulty variant: the first TurboX binding is kept.
visit_Assign_keep(node, e) ==
    LET named == node.targets # <<>> /\ node.targets[1].kind = "Name"
        a == IF /\ node.value.kind = "Call"
                /\ node.value.func.kind = "Name"
                /\ node.value.func.id = "TurboX"
                /\ named
                /\ e.app_name = None
             THEN Some(node.targets[1].id)
             ELSE e.app_name
        c == IF named /\ node.value.kind = "Constant" /\ node.value.type = "str"
             THEN DictSet(e.constants, node.targets[1].id, node.value.value)
             ELSE e.constants
    IN  Extractor(e.routes, e.functions, a, c)

visit_Assign(node, e) ==
    LET named == node.targets # <<>> /\ node.targets[1].kind = "Name"
        a == IF /\ node.value.kind = "Call"
                /\ node.value.func.kind = "Name"
                /\ node.value.func.id = "TurboX"
                /\ named
             THEN Some(node.targets[1].id)
             ELSE e.app_name
        c == IF named /\ node.value.kind = "Constant" /\ node.value.type = "str"
             THEN DictSet(e.constants, node.targets[1].id, node.value.value)
             ELSE e.constants
    IN  Extractor(e.routes, e.functions, a, c)

RECURSIVE visit(_, _), visit_body(_, _)

\* generic_visit: only statements can hold Assign or FunctionDef nodes, and
\* of the kinds here only a function has statements below it.
generic_visit(node, e) ==
    IF IsFunction(node) THEN visit_body(node.body, e) ELSE e

visit_FunctionDef(node, e) ==
    generic_visit(node,
        Extractor(e.routes \o DecoratorRoutes(node.decorator_list, node, e),
                  DictSet(e.functions, node.name, node),
                  e.app_name, e.constants))

\* NodeVisitor.visit: visit_<class name> when the visitor has it
visit(node, e) ==
    IF node.kind = "Assign" THEN visit_Assign(node, e)
    ELSE IF node.kind = "FunctionDef" THEN visit_FunctionDef(node, e)
    ELSE generic_visit(node, e)

visit_body(body, e) ==
    IF body = <<>> THEN e ELSE visit_body(Tail(body), visit(Head(body), e))

\* extract_routes on a whole module
extract_routes(module) == visit_body(module, NewExtractor).routes

(***************************************************************************)
(* turbox/validator.py                                                     *)
(***************************************************************************)
ValidationError(message, line) == [message |-> message, line |-> line]
ValidationWarning(message, line) == [message |-> message, line |-> line]
\* line=None of a diagnostic
NoLine == 0

\* The validator's two lists as one value.  A check is a loop whose body
\* appends to the lists; the body is given as what one turn of it appends.
Diagnostics(errs, warns) == [errors |-> errs, warnings |-> warns]
Nothing == Diagnostics(<<>>, <<>>)
AnError(message, line) == Diagnostics(<<ValidationError(message, line)>>, <<>>)
AWarning(message, line) == Diagnostics(<<>>, <<ValidationWarning(message, line)>>)
Both(v, w) == Diagnostics(v.errors \o w.errors, v.warnings \o w.warnings)

\* The concatenation of a sequence of sequences, in order.
RECURSIVE Flatten(_)
Flatten(seqs) ==
    IF Len(seqs) = 0 THEN <<>>
    ELSE IF Len(seqs) = 1 THEN seqs[1]
    ELSE LET mid == Len(seqs) \div 2
         IN  Flatten(SubSeq(seqs, 1, mid)) \o Flatten(SubSeq(seqs, mid + 1, Len(seqs)))

\* The lists after a loop whose turns appended turns[1], turns[2], ...
Collect(v, turns) ==
    Diagnostics(v.errors \o Flatten([i \in DOMAIN turns |-> turns[i].errors]),
                v.warnings \o Flatten([i \in DOMAIN turns |-> turns[i].warnings]))

Present(node) == IF node = NoNode THEN <<>> ELSE <<node>>

\* ast.iter_child_nodes: the child nodes in the order of the class's _fields
iter_child_nodes(node) ==
    CASE IsFunction(node) ->
            <<[kind |-> "arguments", args |-> node.args]>> \o node.body
            \o node.decorator_list \o Present(node.returns)
      [] node.kind = "arguments" ->
            [i \in DOMAIN node.args |->
                [kind |-> "arg", annotation |-> node.args[i].annotation]]
      [] node.kind = "arg" -> Present(node.annotation)
      [] node.kind = "Assign" -> node.targets \o <<node.value>>
      [] node.kind = "Return" -> Present(node.value)
      [] node.kind = "Call" ->
            <<node.func>> \o node.args
            \o [i \in DOMAIN node.keywords |->
                   [kind |-> "keyword", value |-> node.keywords[i].value]]
      [] node.kind = "keyword" -> <<node.value>>
      [] node.kind = "Attribute" -> <<node.value>>
      [] node.kind = "BinOp" -> <<node.left, node.right>>
      [] node.kind = "JoinedStr" -> node.values
      [] node.kind = "FormattedValue" -> <<node.value>>
      [] node.kind = "List" -> node.elts
      [] node.kind = "Lambda" -> <<node.body>>
      [] OTHER -> <<>>

\* ast.walk below a list of nodes: breadth first, level by level
RECURSIVE walk_level(_)
walk_level(level) ==
    IF level = <<>> THEN <<>>
    ELSE level \o walk_level(Flatten([i \in DOMAIN level |-> iter_child_nodes(level[i])]))

\* ast.walk(self.tree): the Module node itself is of no kind the checks test
walk(module) == walk_level(module)

\* One turn of the loop of _validate_routes_exist.
RouteExists(route) ==
    IF route.function = NoNode
    THEN AnError("Handler function '" \o route.handler \o "' not found", NoLine)
    ELSE Nothing

_validate_routes_exist(rs, v) ==
    Collect(v, [i \in DOMAIN rs |-> RouteExists(rs[i])])

\* One turn of the loop of _validate_handler_signatures.
SignatureOfRoute(route) ==
    LET func_node == route.function
        handler_name == route.handler
    IN  IF func_node = NoNode THEN Nothing
        ELSE IF Len(func_node.args) # 1
        THEN AnError("Handler '" \o handler_name
                     \o "' must accept exactly one parameter (request)", func_node.lineno)
        ELSE
        LET param == func_node.args[1]
            hint == IF param.annotation = NoNode
                    THEN AWarning("Handler '" \o handler_name \o "' parameter '"
                                  \o param.arg \o "' missing type hint", func_node.lineno)
                    ELSE IF param.annotation.kind = "Name" /\ param.annotation.id # "Request"
                    THEN AnError("Handler '" \o handler_name
                                 \o "' parameter must be of type 'Request', got '"
                                 \o param.annotation.id \o "'", func_node.lineno)
                    ELSE Nothing
            returns == IF func_node.returns = NoNode
                       THEN AWarning("Handler '" \o handler_name
                                     \o "' missing return type hint", func_node.lineno)
                       ELSE IF func_node.returns.kind = "Name" /\ func_node.returns.id # "str"
                       THEN AnError("Handler '" \o handler_name \o "' must return 'str', got '"
                                    \o func_node.returns.id \o "'", func_node.lineno)
                       ELSE Nothing
        IN  Both(hint, returns)

_validate_handler_signatures(rs, v) ==
    Collect(v, [i \in DOMAIN rs |-> SignatureOfRoute(rs[i])])

\* One turn of the loop over the return statements of a handler.
\* Faulty variant: a return without a value is let through.
CheckReturn_valued(ret_node, handler_name) ==
    IF ret_node.value = NoNode THEN Nothing
    ELSE IF ret_node.value.kind = "Constant" /\ ret_node.value.type # "str"
    THEN AnError("Handler '" \o handler_name \o "' returns non-string value: "
                 \o ret_node.value.type, ret_node.lineno)
    ELSE Nothing

CheckReturn(ret_node, handler_name) ==
    IF ret_node.value = NoNode
    THEN AnError("Handler '" \o handler_name \o "' has empty return statement",
                 ret_node.lineno)
    ELSE IF ret_node.value.kind = "Constant" /\ ret_node.value.type # "str"
    THEN AnError("Handler '" \o handler_name \o "' returns non-string value: "
                 \o ret_node.value.type, ret_node.lineno)
    ELSE Nothing

\* One turn of the loop of _validate_return_types.
ReturnsOfRoute(route) ==
    LET func_node == route.function
        handler_name == route.handler
        returns == SelectSeq(walk(<<func_node>>), LAMBDA node : node.kind = "Return")
    IN  IF func_node = NoNode THEN Nothing
        ELSE IF returns = <<>>
        THEN AnError("Handler '" \o handler_name \o "' has no return statement",
                     func_node.lineno)
        ELSE Collect(Nothing,
                     [i \in DOMAIN returns |-> CheckReturn(returns[i], handler_name)])

_validate_return_types(rs, v) ==
    Collect(v, [i \in DOMAIN rs |-> ReturnsOfRoute(rs[i])])

unsupported_imports == {"json", "requests", "asyncio", "threading", "multiprocessing"}

\* A dotted module name is the sequence of its components, so that
\* name.split('.')[0] is its head; an absent module (None) is <<>>.
alias(name) == [name |-> name]
FirstComponent(dotted) == IF dotted = <<>> THEN None ELSE Some(Head(dotted))

\* One turn of the loop of _validate_unsupported_features.
UnsupportedInNode(node) ==
    LET module_name ==
            IF node.kind = "Import"
            THEN IF node.names # <<>> THEN FirstComponent(node.names[1].name) ELSE None
            ELSE IF node.kind = "ImportFrom" THEN FirstComponent(node.module)
            ELSE None
        import == IF module_name # None /\ module_name[1] \in unsupported_imports
                  THEN AnError("Unsupported import: " \o module_name[1], node.lineno)
                  ELSE Nothing
        async == IF node.kind = "AsyncFunctionDef"
                 THEN AnError("Async functions not supported: " \o node.name, node.lineno)
                 ELSE Nothing
        lambda == IF node.kind = "Lambda"
                  THEN AWarning("Lambda functions may not work correctly in Codon",
                                node.lineno)
                  ELSE Nothing
    IN  Both(Both(import, async), lambda)

_validate_unsupported_features(module, v) ==
    LET nodes == walk(module)
    IN  Collect(v, [i \in DOMAIN nodes |-> UnsupportedInNode(nodes[i])])

\* One turn of the second loop of _validate_imports.
\* Faulty variant: the Request annotation is reported whether or not Request
\* is imported.
RequestImported_ignored(route, has_request_import) ==
    LET func_node == route.function
    IN  IF /\ func_node # NoNode
           /\ func_node.args # <<>>
           /\ func_node.args[1].annotation # NoNode
           /\ func_node.args[1].annotation.kind = "Name"
           /\ func_node.args[1].annotation.id = "Request"
        THEN AWarning(
                "Using 'Request' type but not importing it. Add: from turbox import Request",
                func_node.lineno)
        ELSE Nothing

RequestImported(route, has_request_import) ==
    LET func_node == route.function
    IN  IF /\ func_node # NoNode
           /\ func_node.args # <<>>
           /\ func_node.args[1].annotation # NoNode
           /\ func_node.args[1].annotation.kind = "Name"
           /\ func_node.args[1].annotation.id = "Request"
           /\ ~has_request_import
        THEN AWarning(
                "Using 'Request' type but not importing it. Add: from turbox import Request",
                func_node.lineno)
        ELSE Nothing

_validate_imports(module, rs, v) ==
    LET nodes == walk(module)
        from_turbox == {i \in DOMAIN nodes :
                            /\ nodes[i].kind = "ImportFrom"
                            /\ nodes[i].module = <<"turbox">>}
        has_turbox_import == from_turbox # {}
        has_request_import ==
            \E i \in from_turbox :
                \E j \in DOMAIN nodes[i].names : nodes[i].names[j].name = "Request"
        missing == IF ~has_turbox_import
                   THEN AWarning("Missing 'from turbox import TurboX' import", NoLine)
                   ELSE Nothing
    IN  Collect(Both(v, missing),
                [i \in DOMAIN rs |-> RequestImported(rs[i], has_request_import)])

\* The first assignment to the name, in walk order, whose value is a constant.
_lookup_constant(name, module) ==
    LET nodes == walk(module)
        hits == {i \in DOMAIN nodes :
                    /\ nodes[i].kind = "Assign"
                    /\ nodes[i].targets # <<>>
                    /\ nodes[i].targets[1].kind = "Name"
                    /\ nodes[i].targets[1].id = name
                    /\ nodes[i].value.kind = "Constant"}
    IN  IF hits = {} THEN None
        ELSE Some(PyStr(nodes[CHOOSE i \in hits : \A j \in hits : i <= j].value))

RECURSIVE _try_evaluate_expression(_, _)
_try_evaluate_expression(node, module) ==
    IF node.kind = "Constant" THEN Some(PyStr(node))
    ELSE IF node.kind = "BinOp" /\ node.op = "Add" THEN
        LET left == _try_evaluate_expression(node.left, module)
            right == _try_evaluate_expression(node.right, module)
        IN  IF left # None /\ right # None THEN Some(left[1] \o right[1]) ELSE None
    ELSE IF node.kind = "JoinedStr" THEN
        JoinParts([i \in DOMAIN node.values |->
            LET value == node.values[i]
            IN  IF value.kind = "Constant" THEN Some(PyStr(value))
                ELSE IF value.kind = "FormattedValue"
                     THEN _try_evaluate_expression(value.value, module)
                     ELSE Some("")])
    ELSE IF node.kind = "Name" THEN _lookup_constant(node.id, module)
    ELSE None

\* One turn of the decorator loop of _detect_dynamic_routes.
DynamicDecorator(decorator, node, module) ==
    IF /\ decorator.kind = "Call"
       /\ decorator.func.kind = "Attribute"
       /\ decorator.func.attr \in SUPPORTED_DECORATORS
       /\ decorator.args # <<>>
       /\ decorator.args[1].kind # "Constant"
       /\ _try_evaluate_expression(decorator.args[1], module) = None
    THEN AWarning("Dynamic route path in '" \o node.name
                  \o "' - path cannot be determined at build time", node.lineno)
    ELSE Nothing

\* One turn of the loop of _detect_dynamic_routes over the nodes.
DynamicInNode(node, module) ==
    IF node.kind = "FunctionDef"
    THEN Collect(Nothing, [i \in DOMAIN node.decorator_list |->
                              DynamicDecorator(node.decorator_list[i], node, module)])
    ELSE Nothing

_detect_dynamic_routes(module, v) ==
    LET nodes == walk(module)
    IN  Collect(v, [i \in DOMAIN nodes |-> DynamicInNode(nodes[i], module)])

validate(module, rs) ==
    _detect_dynamic_routes(module,
        _validate_imports(module, rs,
            _validate_unsupported_features(module,
                _validate_return_types(rs,
                    _validate_handler_signatures(rs,
                        _validate_routes_exist(rs, Nothing))))))

validate_app(module, rs) == validate(module, rs)

\* Faulty variant: warnings count as failures.
print_validation_results_strict(errs, warns) == errs # <<>> \/ warns # <<>>

\* The value print_validation_results returns.
print_validation_results(errs, warns) == errs # <<>>

(***************************************************************************)
(* turbox/build/transpiler.py                                              *)
(***************************************************************************)
\* The parts of an f-string return, as generate_handler_code joins them.
RECURSIVE FStringParts(_)
FStringParts(values) ==
    IF values = <<>> THEN ""
    ELSE LET val == Head(values)
             part == IF val.kind = "Constant" THEN PyStr(val)
                     ELSE IF val.kind = "FormattedValue" /\ val.value.kind = "Attribute"
                     THEN "{...}"
                     ELSE IF val.kind = "FormattedValue" /\ val.value.kind = "Name"
                     THEN "{" \o val.value.id \o "}"
                     ELSE ""
         IN  part \o FStringParts(Tail(values))

\* body_lines after the loop over func.body
RECURSIVE BodyLines(_)
BodyLines(body) ==
    IF body = <<>> THEN <<>>
    ELSE LET node == Head(body)
             line == IF node.kind = "Return" /\ node.value.kind = "Constant"
                     THEN <<"    return \"" \o PyStr(node.value) \o "\"">>
                     ELSE IF node.kind = "Return" /\ node.value.kind = "JoinedStr"
                     THEN <<"    return \"" \o FStringParts(node.value.values) \o "\"">>
                     ELSE <<>>
         IN  line \o BodyLines(Tail(body))

\* chr(10).join(lines)
RECURSIVE JoinLines(_)
JoinLines(lines) ==
    IF lines = <<>> THEN ""
    ELSE IF Len(lines) = 1 THEN lines[1]
    ELSE Head(lines) \o "\n" \o JoinLines(Tail(lines))

generate_handler_code(route) ==
    LET func == route.function
        handler_name == route.handler
        found == BodyLines(func.body)
        body_lines == IF found = <<>>
                      THEN <<"    return \"Response from " \o handler_name \o "\"">>
                      ELSE found
    IN  "\ndef " \o handler_name \o "(request: Request) -> str:\n"
        \o JoinLines(body_lines) \o "\n"

\* The statement app.routes['<method>:<path>'] = <handler>
Registration(method, path, handler) ==
    [section |-> "register", key |-> method \o ":" \o path, handler |-> handler]

\* Faulty variant: only the first method of a route is registered.
RegistrationsOfRoute_first(route) ==
    IF route.methods = <<>> THEN <<>>
    ELSE <<Registration(route.methods[1], route.path, route.handler)>>

\* The registration statements of one route, one for each of its methods.
RegistrationsOfRoute(route) ==
    [i \in DOMAIN route.methods |->
        Registration(route.methods[i], route.path, route.handler)]

route_registrations(rs) == Flatten([i \in DOMAIN rs |-> RegistrationsOfRoute(rs[i])])

\* Faulty variant: the registration block is put before the handlers.
generate_codon_server_early(rs) ==
    <<[section |-> "template"]>>
    \o <<[section |-> "setup"]>>
    \o route_registrations(rs)
    \o [i \in DOMAIN rs |-> [section |-> "handler", text |-> generate_handler_code(rs[i])]]
    \o <<[section |-> "run"]>>

\* The generated file, section by section in the order of its text.
generate_codon_server(rs) ==
    <<[section |-> "template"]>>
    \o [i \in DOMAIN rs |-> [section |-> "handler", text |-> generate_handler_code(rs[i])]]
    \o <<[section |-> "setup"]>>
    \o route_registrations(rs)
    \o <<[section |-> "run"]>>

\* The generated program's route table once its registration statements have
\* run: routes is a Dict[str, handler] and each statement assigns one key.
RunRegistrations(program) ==
    LET stmts == {i \in DOMAIN program : program[i].section = "register"}
        last(k) == CHOOSE i \in stmts :
                       /\ program[i].key = k
                       /\ \A j \in stmts : program[j].key = k => j <= i
    IN  [k \in {program[i].key : i \in stmts} |-> program[last(k)].handler]

(***************************************************************************)
(* turbox/app.py: the Python runtime                                       *)
(***************************************************************************)
\* The decorator returned by TurboX.route(path, methods), applied to func.
\* Faulty variant: a key that is already present keeps its handler.
RECURSIVE RegisterMethods_keep(_, _, _, _)
RegisterMethods_keep(table, methods, path, func) ==
    IF methods = <<>> THEN table
    ELSE RegisterMethods_keep(
             IF <<Head(methods), path>> \in DOMAIN table THEN table
             ELSE DictSet(table, <<Head(methods), path>>, func),
             Tail(methods), path, func)

RECURSIVE RegisterMethods(_, _, _, _)
RegisterMethods(table, methods, path, func) ==
    IF methods = <<>> THEN table
    ELSE RegisterMethods(DictSet(table, <<Head(methods), path>>, func),
                         Tail(methods), path, func)

TurboX_route(table, path, methods, func) ==
    RegisterMethods(table, IF methods = None THEN <<"GET">> ELSE methods[1], path, func)

\* The status and the body of the response _build_response encodes.
_build_response(body, status) == [status |-> status, body |-> body]

\* Faulty variant: a handler's exception is answered like a result.
_handle_request_swallow(table, req, behaviour) ==
    IF req = None
    THEN [response |-> _build_response("Bad Request", 400), invoked |-> <<>>]
    ELSE LET route_key == <<req[1].method, req[1].path>>
         IN  IF route_key \in DOMAIN table
             THEN [response |-> _build_response(behaviour.value, 200),
                   invoked |-> <<table[route_key]>>]
             ELSE [response |-> _build_response("Not Found", 404), invoked |-> <<>>]

\* _handle_request on the parsed request (None when _parse_request gives
\* None), with what the handler does when it is called: the response, and
\* the handlers called.
_handle_request(table, req, behaviour) ==
    IF req = None
    THEN [response |-> _build_response("Bad Request", 400), invoked |-> <<>>]
    ELSE LET route_key == <<req[1].method, req[1].path>>
         IN  IF route_key \in DOMAIN table
             THEN LET handler == table[route_key]
                  IN  IF behaviour.raises
                      THEN [response |->
                                _build_response("Internal Server Error: " \o behaviour.value,
                                                500),
                            invoked |-> <<handler>>]
                      ELSE [response |-> _build_response(behaviour.value, 200),
                            invoked |-> <<handler>>]
             ELSE [response |-> _build_response("Not Found", 404), invoked |-> <<>>]

(***************************************************************************)
(* The sources the programs are run on                                     *)
(***************************************************************************)
\* @app.<method>(<path>)
AppDecorator(method, path) == Call(Attribute(Name("app"), method), <<path>>, <<>>)
\* get_path()
GetPathCall == Call(Name("get_path"), <<>>, <<>>)
ReturnsText == <<Return(Str("x"))>>
Untyped == <<arg("request", NoNode)>>
Typed == <<arg("request", Name("Request"))>>

\* The statements of the applications given to build.
BuildSource == {
    \* from turbox import TurboX, Request
    ImportFrom(<<"turbox">>, <<alias("TurboX"), alias("Request")>>),
    \* import json
    Import(<<alias(<<"json">>)>>),
    \* app = TurboX()
    Assign(<<Name("app")>>, Call(Name("TurboX"), <<>>, <<>>)),
    \* callback = lambda: "x"
    Assign(<<Name("callback")>>, Lambda(Str("x"))),
    \* @app.route("/hello")
    \* def hello(request: Request) -> str: return "Hello"
    FunctionDef("hello", Typed, <<Return(Str("Hello"))>>,
                <<AppDecorator("route", Str("/hello"))>>, Name("str")),
    \* @app.get("/hello")
    \* def plain(request): return "x"
    FunctionDef("plain", Untyped, ReturnsText,
                <<AppDecorator("get", Str("/hello"))>>, NoNode),
    \* @app.get("/a")
    \* @app.post("/a")
    \* def two(a: Request, b) -> str: return "x"
    FunctionDef("two", <<arg("a", Name("Request")), arg("b", NoNode)>>, ReturnsText,
                <<AppDecorator("get", Str("/a")), AppDecorator("post", Str("/a"))>>,
                Name("str")),
    \* @app.get(get_path())
    \* def dyn(request: Request) -> str: return "x"
    FunctionDef("dyn", Typed, ReturnsText,
                <<AppDecorator("get", GetPathCall)>>, Name("str")),
    \* @app.get("/n")
    \* def num(request: Request) -> int: return 42
    FunctionDef("num", Typed, <<Return(Num(42))>>,
                <<AppDecorator("get", Str("/n"))>>, Name("int")),
    \* async def later(): return "x"
    AsyncFunctionDef("later", <<>>, ReturnsText, <<>>, NoNode)
}

\* The statements of the sources the extractor alone is run on.
ExtractSource == {
    \* from config import X
    ImportFrom(<<"config">>, <<alias("X")>>),
    \* X = "/a"
    Assign(<<Name("X")>>, Str("/a")),
    \* X = "/b"
    Assign(<<Name("X")>>, Str("/b")),
    \* X = compute()
    Assign(<<Name("X")>>, Call(Name("compute"), <<>>, <<>>)),
    \* def helper():
    \*     X = "/t"
    \*     return X
    FunctionDef("helper", <<>>,
                <<Assign(<<Name("X")>>, Str("/t")), Return(Name("X"))>>, <<>>, NoNode),
    \* @app.get(X + "/u")
    \* def users(request): return "x"
    FunctionDef("users", Untyped, ReturnsText,
                <<AppDecorator("get", BinOp(Name("X"), "Add", Str("/u")))>>, NoNode),
    \* @app.get(f"/v{X}")
    \* def ver(request): return "x"
    FunctionDef("ver", Untyped, ReturnsText,
                <<AppDecorator("get", JoinedStr(<<Str("/v"), FormattedValue(Name("X"))>>))>>,
                NoNode),
    \* @app.get(get_path())
    \* @app.post("/s")
    \* def mixed(request): return "x"
    FunctionDef("mixed", Untyped, ReturnsText,
                <<AppDecorator("get", GetPathCall), AppDecorator("post", Str("/s"))>>,
                NoNode),
    \* @app.get(get_path())
    \* def dynamic_handler(request): return "x"
    FunctionDef("dynamic_handler", Untyped, ReturnsText,
                <<AppDecorator("get", GetPathCall)>>, NoNode),
    \* @app.get("/s")
    \* def static_handler(request): return "x"
    FunctionDef("static_handler", Untyped, ReturnsText,
                <<AppDecorator("get", Str("/s"))>>, NoNode)
}

\* The registrations the Python runtime is given.
\* @<object>.<method>(<path>, <keywords>)
Decorator(object, method, path, keywords) ==
    Call(Attribute(object, method), <<path>>, keywords)
MethodsKeyword(elts) == <<keyword("methods", List(elts))>>

\* The statements of the sources that use the forms a decorator can take.
DecoratorSource == {
    \* app = TurboX()
    Assign(<<Name("app")>>, Call(Name("TurboX"), <<>>, <<>>)),
    \* api = TurboX()
    Assign(<<Name("api")>>, Call(Name("TurboX"), <<>>, <<>>)),
    \* @other.get("/o")
    \* def wrong(request): return "x"
    FunctionDef("wrong", Untyped, ReturnsText,
                <<Decorator(Name("other"), "get", Str("/o"), <<>>)>>, NoNode),
    \* @app.get("/s")
    \* def right(request): return "x"
    FunctionDef("right", Untyped, ReturnsText,
                <<Decorator(Name("app"), "get", Str("/s"), <<>>)>>, NoNode),
    \* @other.post("/w")
    \* @app.post("/b")
    \* def both(request): return "x"
    FunctionDef("both", Untyped, ReturnsText,
                <<Decorator(Name("other"), "post", Str("/w"), <<>>),
                  Decorator(Name("app"), "post", Str("/b"), <<>>)>>, NoNode),
    \* @app.route("/r", methods=["GET", "POST"])
    \* def multi(request): return "x"
    FunctionDef("multi", Untyped, ReturnsText,
                <<Decorator(Name("app"), "route", Str("/r"),
                            MethodsKeyword(<<Str("GET"), Str("POST")>>))>>, NoNode),
    \* @app.route("/d")
    \* def default(request): return "x"
    FunctionDef("default", Untyped, ReturnsText,
                <<Decorator(Name("app"), "route", Str("/d"), <<>>)>>, NoNode),
    \* @app.post("/p", methods=["GET"])
    \* def named(request): return "x"
    FunctionDef("named", Untyped, ReturnsText,
                <<Decorator(Name("app"), "post", Str("/p"), MethodsKeyword(<<Str("GET")>>))>>,
                NoNode),
    \* @app.route("/l", methods=["get", M])
    \* def lower(request): return "x"
    FunctionDef("lower", Untyped, ReturnsText,
                <<Decorator(Name("app"), "route", Str("/l"),
                            MethodsKeyword(<<Str("get"), Name("M")>>))>>, NoNode),
    \* @app.route("/z", methods=[])
    \* def bare(request): return "x"
    FunctionDef("bare", Untyped, ReturnsText,
                <<Decorator(Name("app"), "route", Str("/z"), MethodsKeyword(<<>>))>>, NoNode),
    \* @app.put("/m")
    \* @app.delete("/m")
    \* @app.patch("/m")
    \* @app.head("/m")
    \* @app.options("/m")
    \* def every(request): return "x"
    FunctionDef("every", Untyped, ReturnsText,
                <<Decorator(Name("app"), "put", Str("/m"), <<>>),
                  Decorator(Name("app"), "delete", Str("/m"), <<>>),
                  Decorator(Name("app"), "patch", Str("/m"), <<>>),
                  Decorator(Name("app"), "head", Str("/m"), <<>>),
                  Decorator(Name("app"), "options", Str("/m"), <<>>)>>, NoNode),
    \* @app.route
    \* def nocall(request): return "x"
    FunctionDef("nocall", Untyped, ReturnsText, <<Attribute(Name("app"), "route")>>, NoNode),
    \* @app.router.route("/n")
    \* def nested(request): return "x"
    FunctionDef("nested", Untyped, ReturnsText,
                <<Decorator(Attribute(Name("app"), "router"), "route", Str("/n"), <<>>)>>,
                NoNode)
}

\* The statements of the sources that are extracted and then validated.
ValidateSource == {
    \* import json
    Import(<<alias(<<"json">>)>>),
    \* import os, json
    Import(<<alias(<<"os">>), alias(<<"json">>)>>),
    \* @app.get("/h")
    \* def hello(request: Request) -> str: return "Hello"
    FunctionDef("hello", Typed, <<Return(Str("Hello"))>>,
                <<AppDecorator("get", Str("/h"))>>, Name("str")),
    \* @app.get("/p")
    \* def plain(request: Request): return "x"
    FunctionDef("plain", Typed, ReturnsText, <<AppDecorator("get", Str("/p"))>>, NoNode),
    \* @app.get("/a")
    \* def two(a: Request, b) -> int: return "x"
    FunctionDef("two", <<arg("a", Name("Request")), arg("b", NoNode)>>, ReturnsText,
                <<AppDecorator("get", Str("/a"))>>, Name("int")),
    \* @app.get("/n")
    \* def num(request: Request) -> int:
    \*     return 42
    \*     return "x"
    FunctionDef("num", Typed, <<Return(Num(42)), Return(Str("x"))>>,
                <<AppDecorator("get", Str("/n"))>>, Name("int")),
    \* @app.get("/e")
    \* def empty(request: Request) -> str: return
    FunctionDef("empty", Typed, <<Return(NoNode)>>,
                <<AppDecorator("get", Str("/e"))>>, Name("str")),
    \* @app.get("/q")
    \* def qualified(request: Request) -> builtins.int: return "x"
    FunctionDef("qualified", Typed, ReturnsText,
                <<AppDecorator("get", Str("/q"))>>, Attribute(Name("builtins"), "int")),
    \* @app.get("/w")
    \* def counted(request: builtins.int) -> str: return "x"
    FunctionDef("counted", <<arg("request", Attribute(Name("builtins"), "int"))>>, ReturnsText,
                <<AppDecorator("get", Str("/w"))>>, Name("str")),
    \* @app.get(P)
    \* def late(request: Request) -> str: return "x"
    FunctionDef("late", Typed, ReturnsText, <<AppDecorator("get", Name("P"))>>, Name("str")),
    \* P = "/late"
    Assign(<<Name("P")>>, Str("/late")),
    \* @app.get(get_path())
    \* def dyn(request: Request) -> str: return "x"
    FunctionDef("dyn", Typed, ReturnsText, <<AppDecorator("get", GetPathCall)>>, Name("str"))
}

RuntimePaths == {"/x", "/y"}
RuntimeMethods == {None, Some(<<"GET">>), Some(<<"POST">>), Some(<<"GET", "POST">>)}
RuntimeHandlers == {"f", "g"}
\* The requests the runtime is sent, as _parse_request gives them.
Request(method, path) == [method |-> method, path |-> path]
Requests ==
    {None} \cup {Some(Request(method, path)) : method \in {"GET", "POST"},
                                                path \in RuntimePaths}
\* What a handler does on a call: it returns a value or raises.
Behaviours == {[raises |-> FALSE, value |-> "ok"], [raises |-> TRUE, value |-> "boom"]}

(***************************************************************************)
(* The state machine                                                       *)
(***************************************************************************)
Init ==
    /\ \/ pc = "start" /\ python_file_exists \in BOOLEAN
       \/ pc = "serve" /\ python_file_exists = TRUE
    /\ tree = <<>>
    /\ routes = <<>>
    /\ functions = <<>>
    /\ app_name = None
    /\ constants = <<>>
    /\ errors = <<>>
    /\ warnings = <<>>
    /\ generated = <<>>
    /\ codon_calls = <<>>
    /\ exit_status = <<>>
    /\ app_routes = <<>>
    /\ calls = <<>>
    /\ exchange = <<>>

\* RouteExtractor() on its own, as the tests run it
InitExtract ==
    /\ pc = "extract"
    /\ python_file_exists = TRUE
    /\ tree = <<>>
    /\ routes = <<>>
    /\ functions = <<>>
    /\ app_name = None
    /\ constants = <<>>
    /\ errors = <<>>
    /\ warnings = <<>>
    /\ generated = <<>>
    /\ codon_calls = <<>>
    /\ exit_status = <<>>
    /\ app_routes = <<>>
    /\ calls = <<>>
    /\ exchange = <<>>

\* subprocess.run(args): a process that ran to its return code, or no
\* process at all
Completed(returncode) == <<returncode>>
FileNotFoundError == <<>>
Run(args, result) == [args |-> args, result |-> result]

extractor_vars == <<tree, routes, functions, app_name, constants>>
validator_vars == <<errors, warnings>>
runtime_vars == <<app_routes, calls, exchange>>

\* sys.exit(code), or the end of the script
Exit(code) ==
    /\ pc' = "exited"
    /\ exit_status' = <<code>>

\* build: if not Path(python_file).exists(): sys.exit(1)
CheckFile ==
    /\ pc = "start"
    /\ IF python_file_exists THEN pc' = "check_codon" /\ UNCHANGED exit_status
       ELSE Exit(1)
    /\ UNCHANGED <<extractor_vars, validator_vars, generated, codon_calls, runtime_vars, python_file_exists>>

\* Faulty variant: a toolchain check that fails is made a second time.
check_codon_available_again ==
    /\ pc = "check_codon"
    /\ \E result \in {Completed(0), Completed(1), FileNotFoundError} :
        /\ codon_calls' = Append(codon_calls, Run(<<"codon", "--version">>, result))
        /\ IF result = Completed(0) THEN pc' = "extract" /\ UNCHANGED exit_status
           ELSE IF codon_calls = <<>> THEN UNCHANGED <<pc, exit_status>>
           ELSE Exit(1)
    /\ UNCHANGED <<extractor_vars, validator_vars, generated, runtime_vars, python_file_exists>>

\* build: if not check_codon_available(): sys.exit(1)
\* subprocess.run(['codon', '--version']) returns a process's return code,
\* or raises FileNotFoundError when there is no codon executable to start.
check_codon_available ==
    /\ pc = "check_codon"
    /\ \E result \in {Completed(0), Completed(1), FileNotFoundError} :
        /\ codon_calls' = Append(codon_calls, Run(<<"codon", "--version">>, result))
        /\ IF result = Completed(0) THEN pc' = "extract" /\ UNCHANGED exit_status
           ELSE Exit(1)
    /\ UNCHANGED <<extractor_vars, validator_vars, generated, runtime_vars, python_file_exists>>

\* The line the next top-level statement starts on.
NextLine == 1 + HeightSeq(tree)

\* extractor.visit(tree), one top-level statement of the module at a time
VisitStatement(source, max) ==
    /\ pc = "extract"
    /\ Len(tree) < max
    /\ \E statement \in source :
        LET node == Place(statement, NextLine)
            e == visit(node, Extractor(routes, functions, app_name, constants))
        IN  /\ tree' = Append(tree, node)
            /\ routes' = e.routes
            /\ functions' = e.functions
            /\ app_name' = e.app_name
            /\ constants' = e.constants
    /\ UNCHANGED <<pc, validator_vars, generated, codon_calls, exit_status, runtime_vars, python_file_exists>>

VisitBuildSource == VisitStatement(BuildSource, MaxStmts)
VisitExtractSource == VisitStatement(ExtractSource, MaxVisits)

\* Faulty variant: the build goes on to validation with no routes.
RoutesExtracted_continue ==
    /\ pc = "extract"
    /\ pc' = "validate"
    /\ UNCHANGED <<extractor_vars, validator_vars, generated, codon_calls, exit_status,
                   runtime_vars, python_file_exists>>

\* build: routes = extract_routes(python_file); if not routes: sys.exit(1)
RoutesExtracted ==
    /\ pc = "extract"
    /\ IF routes = <<>> THEN Exit(1)
       ELSE pc' = "validate" /\ UNCHANGED exit_status
    /\ UNCHANGED <<extractor_vars, validator_vars, generated, codon_calls, runtime_vars, python_file_exists>>

\* build: validate_app, print_validation_results, if has_errors: sys.exit(1)
Validate ==
    /\ pc = "validate"
    /\ LET v == validate_app(tree, routes)
           has_errors == print_validation_results(v.errors, v.warnings)
       IN  /\ errors' = v.errors
           /\ warnings' = v.warnings
           /\ IF has_errors THEN Exit(1)
              ELSE pc' = "generate" /\ UNCHANGED exit_status
    /\ UNCHANGED <<extractor_vars, generated, codon_calls, runtime_vars, python_file_exists>>

\* build: generate_codon_server(routes, generated_file)
Generate ==
    /\ pc = "generate"
    /\ generated' = generate_codon_server(routes)
    /\ pc' = "compile"
    /\ UNCHANGED <<extractor_vars, validator_vars, codon_calls, exit_status, runtime_vars, python_file_exists>>

\* Faulty variant: the compiler's return code is not looked at.
compile_to_binary_unchecked ==
    /\ pc = "compile"
    /\ \E returncode \in {0, 1} :
        /\ codon_calls' = Append(codon_calls, Run(<<"codon", "build">>, Completed(returncode)))
        /\ Exit(0)
    /\ UNCHANGED <<extractor_vars, validator_vars, generated, runtime_vars, python_file_exists>>

\* build: success = compile_to_binary(...); if not success: sys.exit(1)
compile_to_binary ==
    /\ pc = "compile"
    /\ \E returncode \in {0, 1} :
        /\ codon_calls' = Append(codon_calls, Run(<<"codon", "build">>, Completed(returncode)))
        /\ Exit(IF returncode = 0 THEN 0 ELSE 1)
    /\ UNCHANGED <<extractor_vars, validator_vars, generated, runtime_vars, python_file_exists>>

\* @app.route(path, methods) applied to a function, in the Python runtime
RouteCall(max) ==
    /\ pc = "serve"
    /\ Len(calls) < max
    /\ \E path \in RuntimePaths, methods \in RuntimeMethods, func \in RuntimeHandlers :
        /\ app_routes' = TurboX_route(app_routes, path, methods, func)
        /\ calls' = Append(calls, [path |-> path, methods |-> methods, func |-> func])
    /\ UNCHANGED <<pc, extractor_vars, validator_vars, generated, codon_calls, exit_status,
                   python_file_exists, exchange>>

route == RouteCall(MaxCalls)

Next ==
    \/ CheckFile
    \/ check_codon_available
    \/ VisitBuildSource
    \/ RoutesExtracted
    \/ Validate
    \/ Generate
    \/ compile_to_binary
    \/ route

Spec == Init /\ [][Next]_vars

NextExtract == VisitExtractSource

SpecExtract == InitExtract /\ [][NextExtract]_vars

\* extractor.visit(tree) and then validate_app(file, code, extractor.routes),
\* as the validator is run on its own
VisitValidateSource == VisitStatement(ValidateSource, MaxChecked)

ValidateExtracted ==
    /\ pc = "extract"
    /\ pc' = "validated"
    /\ LET v == validate_app(tree, routes)
       IN  errors' = v.errors /\ warnings' = v.warnings
    /\ UNCHANGED <<extractor_vars, generated, codon_calls, exit_status, runtime_vars,
                   python_file_exists>>

NextValidate == VisitValidateSource \/ ValidateExtracted

SpecValidate == InitExtract /\ [][NextValidate]_vars

\* RouteExtractor run on the sources of DecoratorSource
VisitDecoratorSource == VisitStatement(DecoratorSource, MaxDecorated)

NextDecorators == VisitDecoratorSource

SpecDecorators == InitExtract /\ [][NextDecorators]_vars

\* The statements of the sources whose handlers are given to the generator.
HandlerSource == {
    \* @app.get("/s")
    \* def hello(request): return "Hello, World!"
    FunctionDef("hello", Untyped, <<Return(Str("Hello, World!"))>>,
                <<AppDecorator("get", Str("/s"))>>, NoNode),
    \* @app.get("/p")
    \* def broken(request): pass
    FunctionDef("broken", Untyped, <<Pass>>,
                <<AppDecorator("get", Str("/p"))>>, NoNode),
    \* @app.route("/m", methods=["GET", "POST"])
    \* def multi(request):
    \*     return "a"
    \*     return "b"
    FunctionDef("multi", Untyped, <<Return(Str("a")), Return(Str("b"))>>,
                <<Decorator(Name("app"), "route", Str("/m"),
                            MethodsKeyword(<<Str("GET"), Str("POST")>>))>>, NoNode),
    \* @app.get("/a")
    \* @app.post("/b")
    \* def both(request): return f"hi {request.path} {name}"
    FunctionDef("both", Untyped,
                <<Return(JoinedStr(<<Str("hi "),
                                     FormattedValue(Attribute(Name("request"), "path")),
                                     Str(" "),
                                     FormattedValue(Name("name"))>>))>>,
                <<AppDecorator("get", Str("/a")), AppDecorator("post", Str("/b"))>>, NoNode),
    \* @app.get("/n")
    \* def num(request): return 42
    FunctionDef("num", Untyped, <<Return(Num(42))>>,
                <<AppDecorator("get", Str("/n"))>>, NoNode),
    \* @app.get("/i")
    \* def outer(request):
    \*     def inner(): return "n"
    FunctionDef("outer", Untyped,
                <<FunctionDef("inner", <<>>, <<Return(Str("n"))>>, <<>>, NoNode)>>,
                <<AppDecorator("get", Str("/i"))>>, NoNode),
    \* @app.get("/e")
    \* def empty(request): return
    FunctionDef("empty", Untyped, <<Return(NoNode)>>,
                <<AppDecorator("get", Str("/e"))>>, NoNode),
    \* @app.get("/v")
    \* def named(request):
    \*     return x
    \*     return "y"
    FunctionDef("named", Untyped, <<Return(Name("x")), Return(Str("y"))>>,
                <<AppDecorator("get", Str("/v"))>>, NoNode),
    \* @app.get("/q")
    \* def quoted(request): return 'say "hi"'
    FunctionDef("quoted", Untyped, <<Return(Str("say \"hi\""))>>,
                <<AppDecorator("get", Str("/q"))>>, NoNode),
    \* @app.route("/b", methods=["GET:/a"])
    \* def left(request): return "x"
    FunctionDef("left", Untyped, ReturnsText,
                <<Decorator(Name("app"), "route", Str("/b"),
                            MethodsKeyword(<<Str("GET:/a")>>))>>, NoNode),
    \* @app.route("/a:/b")
    \* def right(request): return "x"
    FunctionDef("right", Untyped, ReturnsText,
                <<AppDecorator("route", Str("/a:/b"))>>, NoNode)
}

\* RouteExtractor run on the sources of HandlerSource
VisitHandlerSource == VisitStatement(HandlerSource, MaxHandlers)

\* generate_codon_server(routes, output_file) on the routes extracted so far
GenerateExtracted ==
    /\ pc = "extract"
    /\ generated' = generate_codon_server(routes)
    /\ pc' = "generated"
    /\ UNCHANGED <<extractor_vars, validator_vars, codon_calls, exit_status, runtime_vars,
                   python_file_exists>>

NextGenerate == VisitHandlerSource \/ GenerateExtracted

SpecGenerate == InitExtract /\ [][NextGenerate]_vars

\* The Python runtime on its own: the module's decorators, then app.run()
InitRuntime == Init /\ pc = "serve"

route_module == RouteCall(MaxRoutes)

\* app.run(): the server starts to listen
run ==
    /\ pc = "serve"
    /\ pc' = "listening"
    /\ UNCHANGED <<extractor_vars, validator_vars, generated, codon_calls, exit_status,
                   python_file_exists, runtime_vars>>

\* One turn of the loop of run: a request is received and answered.
run_request ==
    /\ pc = "listening"
    /\ \E req \in Requests, behaviour \in Behaviours :
        LET handled == _handle_request(app_routes, req, behaviour)
        IN  exchange' = <<[request |-> req, behaviour |-> behaviour,
                           response |-> handled.response, invoked |-> handled.invoked]>>
    /\ UNCHANGED <<pc, extractor_vars, validator_vars, generated, codon_calls, exit_status,
                   python_file_exists, app_routes, calls>>

NextRuntime == route_module \/ run \/ run_request

SpecRuntime == InitRuntime /\ [][NextRuntime]_vars

(***************************************************************************)
(* Properties of the extractor (SpecExtract)                               *)
(***************************************************************************)
IsTopFunction(i) == i \in DOMAIN tree /\ tree[i].kind = "FunctionDef"
RoutesOf(node) == SelectSeq(routes, LAMBDA r : r.function = node)

\* The statements in the order the traversal meets them: a function, then
\* the statements of its body.
RECURSIVE Preorder(_)
Preorder(nodes) ==
    Flatten([i \in DOMAIN nodes |->
        <<nodes[i]>> \o (IF IsFunction(nodes[i]) THEN Preorder(nodes[i].body) ELSE <<>>)])

IsStrAssign(node, name) ==
    /\ node.kind = "Assign"
    /\ node.targets # <<>>
    /\ node.targets[1] = Name(name)
    /\ node.value.kind = "Constant"
    /\ node.value.type = "str"

\* Python's module namespace before statement i of the module runs: what
\* the last top-level statement binding the name bound it to.  A function
\* body binds nothing at module level.
Binds(node, name) ==
    \/ node.kind = "Assign" /\ \E t \in DOMAIN node.targets : node.targets[t] = Name(name)
    \/ node.kind = "ImportFrom" /\ \E a \in DOMAIN node.names : node.names[a].name = name
    \/ IsFunction(node) /\ node.name = name
PyBinders(name, i) == {j \in 1..(i - 1) : Binds(tree[j], name)}
PyLastBinder(name, i) == tree[CHOOSE j \in PyBinders(name, i) : \A k \in PyBinders(name, i) : k <= j]
PyIsLiteral(name, i) ==
    /\ PyBinders(name, i) # {}
    /\ PyLastBinder(name, i).kind = "Assign"
    /\ PyLastBinder(name, i).value.kind = "Constant"
    /\ PyLastBinder(name, i).value.type = "str"

\* The path is built only from string literals, module-level string-literal
\* constants, + and f-string interpolation of those.
RECURSIVE PurePath(_, _)
PurePath(expr, i) ==
    CASE expr.kind = "Constant" -> expr.type = "str"
      [] expr.kind = "Name" -> PyIsLiteral(expr.id, i)
      [] expr.kind = "BinOp" ->
            expr.op = "Add" /\ PurePath(expr.left, i) /\ PurePath(expr.right, i)
      [] expr.kind = "JoinedStr" ->
            \A k \in DOMAIN expr.values :
                PurePath(IF expr.values[k].kind = "FormattedValue"
                         THEN expr.values[k].value ELSE expr.values[k], i)
      [] OTHER -> FALSE

\* What Python evaluates a pure path expression to at statement i.
RECURSIVE PyEval(_, _)
PyEval(expr, i) ==
    CASE expr.kind = "Constant" -> expr.value
      [] expr.kind = "Name" -> PyLastBinder(expr.id, i).value.value
      [] expr.kind = "BinOp" -> PyEval(expr.left, i) \o PyEval(expr.right, i)
      [] expr.kind = "JoinedStr" ->
            IF expr.values = <<>> THEN ""
            ELSE LET first == expr.values[1]
                 IN  PyEval(IF first.kind = "FormattedValue" THEN first.value ELSE first, i)
                     \o PyEval(JoinedStr(Tail(expr.values)), i)

\* C1: the path of every route extracted from a decorator whose path is built
\* only from string literals, module-level string-literal constants, + and
\* f-strings is the string Python evaluates that expression to.
C1_PathIsPythonValue ==
    \A i \in DOMAIN tree :
        (/\ IsTopFunction(i)
         /\ Len(tree[i].decorator_list) = 1
         /\ tree[i].decorator_list[1].args # <<>>
         /\ PurePath(tree[i].decorator_list[1].args[1], i))
        => \A k \in DOMAIN routes :
               routes[k].function = tree[i]
               => routes[k].path = PyEval(tree[i].decorator_list[1].args[1], i)

\* A routing decorator whose path argument is a function call.
CallPath(decorator) ==
    /\ decorator.kind = "Call"
    /\ decorator.args # <<>>
    /\ decorator.args[1].kind = "Call"

\* The same module with every call-path decorator removed.
WithoutCallPaths(nodes) ==
    [i \in DOMAIN nodes |->
        IF nodes[i].kind = "FunctionDef"
        THEN [nodes[i] EXCEPT !.decorator_list = SelectSeq(@, LAMBDA d : ~CallPath(d))]
        ELSE nodes[i]]

RouteFacts(rs) ==
    [k \in DOMAIN rs |->
        [path |-> rs[k].path, methods |-> rs[k].methods,
         handler |-> rs[k].handler, lineno |-> rs[k].function.lineno]]

LiteralDecorator(decorator) ==
    /\ decorator.kind = "Call"
    /\ decorator.func.kind = "Attribute"
    /\ decorator.func.attr \in SUPPORTED_DECORATORS \ {"route"}
    /\ decorator.func.value = Name("app")
    /\ decorator.args # <<>>
    /\ decorator.args[1].kind = "Constant"
    /\ decorator.args[1].type = "str"
    /\ decorator.args[1].value # ""

\* C2: a decorator whose path argument is a call never produces a route: the
\* routes are those of the module without such decorators, a function has no
\* more routes than it has other decorators, and every literal-path decorator
\* of the same or of another function still gives its route.
C2_CallPathGivesNoRoute ==
    /\ RouteFacts(routes) = RouteFacts(extract_routes(WithoutCallPaths(tree)))
    /\ \A i \in DOMAIN tree :
           IsTopFunction(i) =>
               /\ Len(RoutesOf(tree[i]))
                      <= Len(SelectSeq(tree[i].decorator_list, LAMBDA d : ~CallPath(d)))
               /\ \A k \in DOMAIN tree[i].decorator_list :
                      LiteralDecorator(tree[i].decorator_list[k])
                      => \E r \in DOMAIN routes :
                             /\ routes[r].function = tree[i]
                             /\ routes[r].path = tree[i].decorator_list[k].args[1].value
                             /\ routes[r].methods = <<Upper(tree[i].decorator_list[k].func.attr)>>

\* A function with one call-path and one literal-path decorator has given
\* exactly the literal route, and a function with only a call-path decorator
\* has been visited and has given none.
C2_Witness ==
    \E i, j \in DOMAIN tree :
        /\ IsTopFunction(i) /\ IsTopFunction(j)
        /\ Len(tree[i].decorator_list) = 2
        /\ CallPath(tree[i].decorator_list[1])
        /\ LiteralDecorator(tree[i].decorator_list[2])
        /\ Len(RoutesOf(tree[i])) = 1
        /\ RoutesOf(tree[i])[1].path = "/s"
        /\ Len(tree[j].decorator_list) = 1
        /\ CallPath(tree[j].decorator_list[1])
        /\ RoutesOf(tree[j]) = <<>>

\* The name occurs in the expression.
RECURSIVE References(_, _)
References(expr, name) ==
    CASE expr.kind = "Name" -> expr.id = name
      [] expr.kind = "BinOp" -> References(expr.left, name) \/ References(expr.right, name)
      [] expr.kind = "JoinedStr" ->
            \E k \in DOMAIN expr.values : References(expr.values[k], name)
      [] expr.kind = "FormattedValue" -> References(expr.value, name)
      [] OTHER -> FALSE

Imported(name, nodes) ==
    \E j \in DOMAIN nodes :
        /\ nodes[j].kind = "ImportFrom"
        /\ \E a \in DOMAIN nodes[j].names : nodes[j].names[a].name = name

StrAssigned(name, nodes) ==
    LET met == Preorder(nodes)
    IN  \E j \in DOMAIN met : IsStrAssign(met[j], name)

ImportNames == {"X"}

\* C3: an identifier bound only by an import is absent from the constant
\* table, every entry of the table comes from an assignment of a string
\* literal to its name, and a decorator path that references an import-bound
\* identifier gives no route.
C3_ImportBoundNotAConstant ==
    /\ LET met == Preorder(tree)
       IN  \A name \in DOMAIN constants :
               \E j \in DOMAIN met :
                   /\ IsStrAssign(met[j], name)
                   /\ met[j].value.value = constants[name]
    /\ \A name \in ImportNames :
           (Imported(name, tree) /\ ~StrAssigned(name, tree)) => name \notin DOMAIN constants
    /\ \A i \in DOMAIN tree : \A name \in ImportNames :
           (/\ IsTopFunction(i)
            /\ Imported(name, SubSeq(tree, 1, i - 1))
            /\ ~StrAssigned(name, SubSeq(tree, 1, i - 1))
            /\ \A k \in DOMAIN tree[i].decorator_list :
                   /\ tree[i].decorator_list[k].args # <<>>
                   /\ References(tree[i].decorator_list[k].args[1], name))
           => RoutesOf(tree[i]) = <<>>

\* X has been imported and rebound to a computed value, never to a string
\* literal, and a function whose decorator path is X + "/u" has been visited.
C3_Witness ==
    \E h, i, j \in DOMAIN tree :
        /\ h < j /\ i < j
        /\ tree[h].kind = "ImportFrom" /\ tree[h].names[1].name = "X"
        /\ tree[i].kind = "Assign" /\ tree[i].targets[1] = Name("X")
        /\ tree[i].value.kind = "Call"
        /\ IsTopFunction(j)
        /\ tree[j].decorator_list # <<>>
        /\ References(tree[j].decorator_list[1].args[1], "X")
        /\ RoutesOf(tree[j]) = <<>>
        /\ "X" \notin DOMAIN constants

\* The value of the last string-literal assignment to the name that the
\* traversal meets before statement i of the module.
LastStrAssign(name, i) ==
    LET before == Preorder(SubSeq(tree, 1, i - 1))
        hits == {j \in DOMAIN before : IsStrAssign(before[j], name)}
    IN  IF hits = {} THEN None
        ELSE Some(before[CHOOSE j \in hits : \A k \in hits : k <= j].value.value)

\* The expression with the name standing for the given string.
RECURSIVE PathWith(_, _, _)
PathWith(expr, name, value) ==
    CASE expr.kind = "Constant" -> expr.value
      [] expr.kind = "Name" -> value
      [] expr.kind = "BinOp" ->
            PathWith(expr.left, name, value) \o PathWith(expr.right, name, value)
      [] expr.kind = "FormattedValue" -> PathWith(expr.value, name, value)
      [] expr.kind = "JoinedStr" ->
            IF expr.values = <<>> THEN ""
            ELSE PathWith(expr.values[1], name, value)
                 \o PathWith(JoinedStr(Tail(expr.values)), name, value)

RefersOnlyTo(decorator, name) ==
    /\ decorator.args # <<>>
    /\ References(decorator.args[1], name)
    /\ ~CallPath(decorator)

Validated ==
    \/ pc \in {"generate", "compile"}
    \/ pc = "exited" /\ routes # <<>>

SignatureErrors(node) ==
    {k \in DOMAIN errors :
        /\ errors[k].line = node.lineno
        /\ errors[k].message
               = "Handler '" \o node.name \o "' must accept exactly one parameter (request)"}

\* C5: a handler function that declares two parameters gets exactly one
\* signature error from validate(), however many resolved routing decorators
\* it carries.
C5_OneSignatureError ==
    Validated =>
        \A i \in DOMAIN tree :
            (IsTopFunction(i) /\ Len(tree[i].args) = 2 /\ RoutesOf(tree[i]) # <<>>)
            => Cardinality(SignatureErrors(tree[i])) = 1

GoodHandler(node) ==
    /\ Len(node.args) = 1
    /\ node.args[1].annotation = Name("Request")
    /\ node.returns = Name("str")
    /\ Len(node.body) = 1
    /\ node.body[1].kind = "Return"
    /\ node.body[1].value.kind = "Constant"
    /\ node.body[1].value.type = "str"

AllHandlersGood == \A k \in DOMAIN routes : GoodHandler(routes[k].function)

CleanSource ==
    LET nodes == walk(tree)
    IN  /\ \E i \in DOMAIN nodes :
               /\ nodes[i].kind = "ImportFrom"
               /\ nodes[i].module = <<"turbox">>
               /\ \E a \in DOMAIN nodes[i].names : nodes[i].names[a].name = "Request"
        /\ \A i \in DOMAIN nodes :
               /\ nodes[i].kind \notin {"AsyncFunctionDef", "Lambda"}
               /\ nodes[i].kind = "Import" =>
                      \A a \in DOMAIN nodes[i].names :
                          Head(nodes[i].names[a].name) \notin unsupported_imports
               /\ nodes[i].kind = "ImportFrom" =>
                      (nodes[i].module = <<>> \/ Head(nodes[i].module) \notin unsupported_imports)
               /\ nodes[i].kind = "FunctionDef" =>
                      \A d \in DOMAIN nodes[i].decorator_list :
                          ~CallPath(nodes[i].decorator_list[d])

MethodsOfCall(call) == IF call.methods = None THEN <<"GET">> ELSE call.methods[1]
KeysOfCall(call) ==
    {<<MethodsOfCall(call)[m], call.path>> : m \in DOMAIN MethodsOfCall(call)}
CallsOfKey(key) == {c \in DOMAIN calls : key \in KeysOfCall(calls[c])}
Range(seq) == {seq[i] : i \in DOMAIN seq}
LastOf(set) == CHOOSE x \in set : \A y \in set : y <= x

\* The (method, path) pairs the extracted routes register, and the routes
\* that register a given pair.
PairsOfRoute(r) == {<<r.methods[m], r.path>> : m \in DOMAIN r.methods}
RoutesOfPair(pair) == {k \in DOMAIN routes : pair \in PairsOfRoute(routes[k])}
AllPairs == UNION {PairsOfRoute(routes[k]) : k \in DOMAIN routes}

ProcessesStarted == SelectSeq(codon_calls, LAMBDA c : c.result # FileNotFoundError)

\* build has read an existing file, extracted no route from it, and exited.
ZeroRoutesExit ==
    /\ pc = "exited"
    /\ python_file_exists
    /\ codon_calls # <<>>
    /\ codon_calls[1].result = Completed(0)
    /\ routes = <<>>

\* C8 as stated: a build of an existing file with zero routes exits non-zero
\* and starts no codon process at any point, and runs neither validation nor
\* generation.
C8_NoCodonProcess ==
    ZeroRoutesExit =>
        /\ exit_status # <<0>>
        /\ ProcessesStarted = <<>>
        /\ errors = <<>> /\ warnings = <<>>
        /\ generated = <<>>

\* C8: a build of an existing file with zero routes exits with status 1
\* without running the compilation (codon build), validation or generation;
\* the one codon process of the run is the codon --version probe made before
\* extraction.
C8_NoCompilation ==
    ZeroRoutesExit =>
        /\ exit_status = <<1>>
        /\ codon_calls = <<Run(<<"codon", "--version">>, Completed(0))>>
        /\ errors = <<>> /\ warnings = <<>>
        /\ generated = <<>>

\* The build has exited on a source with statements and no route, one that
\* validation would have had something to say about.
C8_Witness ==
    /\ ZeroRoutesExit
    /\ tree # <<>>
    /\ validate_app(tree, routes) # Nothing
    /\ exit_status = <<1>>

CompilerRan == \E i \in DOMAIN codon_calls : codon_calls[i].args = <<"codon", "build">>

\* C9: code generation runs if and only if validation returned zero errors.
\* With errors neither the generator nor the compiler is run; without errors
\* the build generates, whatever the warnings.
C9_GenerationIffNoErrors ==
    /\ (generated # <<>> \/ CompilerRan) => (Validated /\ errors = <<>>)
    /\ CompilerRan => generated # <<>>
    /\ (Validated /\ errors # <<>>) => (pc = "exited" /\ generated = <<>> /\ ~CompilerRan)
    /\ (Validated /\ errors = <<>>) => (pc = "generate" \/ generated # <<>>)
    /\ pc = "generate" => (Validated /\ errors = <<>>)
    /\ generated # <<>> => generated = generate_codon_server(routes)

\* A build whose validation returned warnings and no error has generated and
\* compiled.
C9_Witness ==
    /\ pc = "exited"
    /\ errors = <<>>
    /\ warnings # <<>>
    /\ generated # <<>>
    /\ CompilerRan

MissingInputFile == ~python_file_exists
MissingCompiler == codon_calls # <<>> /\ codon_calls[1].result # Completed(0)
ZeroRoutes == ZeroRoutesExit
ValidationErrors == errors # <<>>
CompilationFailure ==
    \E i \in DOMAIN codon_calls :
        codon_calls[i].args = <<"codon", "build">> /\ codon_calls[i].result # Completed(0)
CompilerSucceeded ==
    \E i \in DOMAIN codon_calls :
        codon_calls[i].args = <<"codon", "build">> /\ codon_calls[i].result = Completed(0)

\* C10: a build run ends with exit status 1 in each of the five failure
\* cases and with status 0 exactly when the compiler returned success, which
\* happens only after every earlier stage passed; until it ends there is no
\* exit status.
C10_ExitStatus ==
    /\ pc # "exited" => exit_status = <<>>
    /\ pc = "exited" =>
        /\ exit_status \in {<<0>>, <<1>>}
        /\ (\/ MissingInputFile \/ MissingCompiler \/ ZeroRoutes
            \/ ValidationErrors \/ CompilationFailure) => exit_status = <<1>>
        /\ exit_status = <<0>> <=> CompilerSucceeded
        /\ CompilerSucceeded =>
               /\ python_file_exists
               /\ codon_calls[1] = Run(<<"codon", "--version">>, Completed(0))
               /\ routes # <<>>
               /\ errors = <<>>
               /\ generated # <<>>

\* One build has ended with status 0 after a successful compilation.
C10_Witness ==
    /\ pc = "exited"
    /\ exit_status = <<0>>
    /\ CompilerSucceeded
    /\ routes # <<>>

(***************************************************************************)
(* Properties of the decorator forms (SpecDecorators)                      *)
(***************************************************************************)
\* The name of the object a routing decorator is applied on, if it is a call
\* on an attribute of a plain name.
DecoratorObject(decorator) ==
    IF /\ decorator.kind = "Call"
       /\ decorator.func.kind = "Attribute"
       /\ decorator.func.value.kind = "Name"
    THEN Some(decorator.func.value.id)
    ELSE None

IsTurboXBinding(node) ==
    /\ node.kind = "Assign"
    /\ node.targets # <<>>
    /\ node.targets[1].kind = "Name"
    /\ node.value.kind = "Call"
    /\ node.value.func = Name("TurboX")

\* The names the statements bind a TurboX instance to.
BoundNames(nodes) ==
    LET met == Preorder(nodes)
    IN  {met[j].targets[1].id : j \in {k \in DOMAIN met : IsTurboXBinding(met[k])}}

\* The name bound by the last TurboX binding among the statements, if any.
LastBinding(nodes) ==
    LET met == Preorder(nodes)
        hits == {j \in DOMAIN met : IsTurboXBinding(met[j])}
    IN  IF hits = {} THEN None
        ELSE Some(met[CHOOSE j \in hits : \A k \in hits : k <= j].targets[1].id)

\* The route has the path of this decorator.
RouteFrom(r, decorator) ==
    /\ decorator.kind = "Call"
    /\ decorator.args # <<>>
    /\ decorator.args[1] = Str(r.path)

OnApplication(i, decorator) ==
    LET binding == LastBinding(SubSeq(tree, 1, i - 1))
    IN  /\ DecoratorObject(decorator) # None
        /\ binding = None \/ DecoratorObject(decorator) = binding

\* The method a named-method decorator stands for.
NamedMethod ==
    [get |-> "GET", post |-> "POST", put |-> "PUT", delete |-> "DELETE",
     patch |-> "PATCH", head |-> "HEAD", options |-> "OPTIONS"]

\* The literal elements of a list display, in order.
LiteralElements(elts) ==
    LET literal == SelectSeq(elts, LAMBDA elt : elt.kind = "Constant")
    IN  [j \in DOMAIN literal |-> literal[j].value]

\* The method set the decorator determines.
ExpectedMethods(decorator) ==
    IF decorator.func.attr # "route" THEN <<NamedMethod[decorator.func.attr]>>
    ELSE LET given == {k \in DOMAIN decorator.keywords :
                           /\ decorator.keywords[k].arg = "methods"
                           /\ decorator.keywords[k].value.kind = "List"}
         IN  IF given = {} THEN <<"GET">>
             ELSE LiteralElements(decorator.keywords[CHOOSE k \in given : TRUE].value.elts)

\* C12: the method set of a route is determined by its decorator: a
\* named-method decorator gives the single upper-cased method of its name
\* whatever its keywords, the route decorator gives the literal elements of
\* its methods=[...] keyword, and [GET] without one.  Every route has the
\* methods of a decorator of its function with its path, and every decorator
\* on the application's name with a literal path has a route with its methods.
C12_MethodsFromDecorator ==
    /\ \A k \in DOMAIN routes :
           \E d \in DOMAIN routes[k].function.decorator_list :
               LET decorator == routes[k].function.decorator_list[d]
               IN  /\ RouteFrom(routes[k], decorator)
                   /\ routes[k].methods = ExpectedMethods(decorator)
    /\ \A i \in DOMAIN tree :
           IsTopFunction(i) =>
               \A d \in DOMAIN tree[i].decorator_list :
                   LET decorator == tree[i].decorator_list[d]
                   IN  (/\ OnApplication(i, decorator)
                        /\ decorator.func.attr \in SUPPORTED_DECORATORS)
                       => \E k \in DOMAIN routes :
                              /\ routes[k].function = tree[i]
                              /\ RouteFrom(routes[k], decorator)
                              /\ routes[k].methods = ExpectedMethods(decorator)

\* route with methods=["GET", "POST"], post with a methods keyword and route
\* without one have been extracted.
C12_Witness ==
    \E a, b, c \in DOMAIN routes :
        /\ routes[a].handler = "multi" /\ routes[a].methods = <<"GET", "POST">>
        /\ routes[b].handler = "named" /\ routes[b].methods = <<"POST">>
        /\ routes[c].handler = "default" /\ routes[c].methods = <<"GET">>

HTTPMethods == {"GET", "POST", "PUT", "DELETE", "PATCH", "HEAD", "OPTIONS"}

\* C13: every route in the extractor's route list has a non-empty method
\* set whose members are upper-case tokens of the fixed set GET, POST, PUT,
\* DELETE, PATCH, HEAD, OPTIONS.
C13_MethodsWellFormed ==
    \A k \in DOMAIN routes :
        /\ routes[k].methods # <<>>
        /\ \A m \in DOMAIN routes[k].methods : routes[k].methods[m] \in HTTPMethods

\* A routing decorator used without a call, or reached through a nested
\* attribute.
NotDirect(decorator) ==
    \/ decorator.kind # "Call"
    \/ decorator.func.kind = "Attribute" /\ decorator.func.value.kind # "Name"

\* The same module with every such decorator removed.
WithoutIndirect(nodes) ==
    [i \in DOMAIN nodes |->
        IF nodes[i].kind = "FunctionDef"
        THEN [nodes[i] EXCEPT !.decorator_list = SelectSeq(@, LAMBDA d : ~NotDirect(d))]
        ELSE nodes[i]]

\* C16: a routing decorator without a call and one reached through a nested
\* attribute never produce a route: the routes are those of the source
\* without such decorators, a function has no more routes than it has other
\* decorators, and every direct decorator on the application's name with a
\* literal path still gives its route.
C16_IndirectGivesNoRoute ==
    /\ RouteFacts(routes) = RouteFacts(extract_routes(WithoutIndirect(tree)))
    /\ \A i \in DOMAIN tree :
           IsTopFunction(i) =>
               /\ Len(RoutesOf(tree[i]))
                      <= Len(SelectSeq(tree[i].decorator_list, LAMBDA d : ~NotDirect(d)))
               /\ \A d \in DOMAIN tree[i].decorator_list :
                      (/\ OnApplication(i, tree[i].decorator_list[d])
                       /\ tree[i].decorator_list[d].func.attr \in SUPPORTED_DECORATORS)
                      => \E k \in DOMAIN routes :
                             /\ routes[k].function = tree[i]
                             /\ RouteFrom(routes[k], tree[i].decorator_list[d])

\* @app.route without a call, @app.router.route("/n") and @app.get("/s")
\* have been visited, and the one route is that of @app.get("/s").
C16_Witness ==
    /\ \E i, j \in DOMAIN tree :
           /\ IsTopFunction(i) /\ tree[i].name = "nocall"
           /\ IsTopFunction(j) /\ tree[j].name = "nested"
    /\ Len(routes) = 1
    /\ routes[1].handler = "right"
    /\ routes[1].path = "/s"

(***************************************************************************)
(* The constant table (SpecExtract)                                        *)
(***************************************************************************)
\* C15: the constant table contains a name only if the source has a
\* module-level assignment of a string literal to that name.
C15_ConstantsFromModuleLevel ==
    \A name \in DOMAIN constants :
        \E i \in DOMAIN tree : IsStrAssign(tree[i], name)

(***************************************************************************)
(* Properties of the validator (SpecValidate)                              *)
(***************************************************************************)
\* A routing decorator the extractor recognizes: a call of a supported
\* method on a plain name, with a path argument.
Recognized(decorator) ==
    /\ DecoratorObject(decorator) # None
    /\ decorator.func.attr \in SUPPORTED_DECORATORS
    /\ decorator.args # <<>>

\* The warnings that name the function.
WarningsNaming(node) ==
    {k \in DOMAIN warnings :
        /\ warnings[k].line = node.lineno
        /\ warnings[k].message \in
               {"Dynamic route path in '" \o node.name
                    \o "' - path cannot be determined at build time",
                "Complex route path in '" \o node.name \o "' - may not work correctly"}}

\* C14: no route is dropped without a diagnostic: when validation has run on
\* extracted routes, every function that carries a recognized routing
\* decorator with a non-literal path and for which no route was emitted has
\* a warning naming it.
C14_DroppedRouteWarned ==
    (pc = "validated" /\ routes # <<>>) =>
        \A i \in DOMAIN tree :
            (/\ IsTopFunction(i)
             /\ Len(tree[i].decorator_list) = 1
             /\ Recognized(tree[i].decorator_list[1])
             /\ tree[i].decorator_list[1].args[1].kind # "Constant"
             /\ RoutesOf(tree[i]) = <<>>)
            => WarningsNaming(tree[i]) # {}

HasError(message, line) ==
    \E k \in DOMAIN errors : errors[k].message = message /\ errors[k].line = line
HasWarning(message, line) ==
    \E k \in DOMAIN warnings : warnings[k].message = message /\ warnings[k].line = line

ParameterCountError(node) ==
    HasError("Handler '" \o node.name \o "' must accept exactly one parameter (request)",
             node.lineno)
\* A 'must return str' error for the handler, whatever type it says it got.
MustReturnStrError(node) ==
    \E k \in DOMAIN errors :
        /\ errors[k].line = node.lineno
        /\ errors[k].message \in
               {"Handler '" \o node.name \o "' must return 'str', got '" \o got \o "'" :
                    got \in {"int", "builtins.int"}}

\* C17: validate() reports violations as a batch: a handler that violates
\* several rules at once has one error for each violated rule, here a wrong
\* parameter count and a return annotation naming a type other than str.
C17_EveryViolationReported ==
    pc = "validated" =>
        \A k \in DOMAIN routes :
            LET node == routes[k].function
            IN  /\ Len(node.args) # 1 => ParameterCountError(node)
                /\ (node.returns.kind = "Name" /\ node.returns.id # "str")
                       => MustReturnStrError(node)

\* C18: every import of a denylisted module, in any import form and at any
\* position among the imported names, gives an error naming that module, and
\* no import error names a module that is not imported.
C18_DenylistedImportReported ==
    pc = "validated" =>
        /\ \A i \in DOMAIN tree :
               /\ tree[i].kind = "Import" =>
                      \A a \in DOMAIN tree[i].names :
                          Head(tree[i].names[a].name) \in unsupported_imports
                          => \E k \in DOMAIN errors :
                                 errors[k].message
                                     = "Unsupported import: " \o Head(tree[i].names[a].name)
               /\ (/\ tree[i].kind = "ImportFrom"
                   /\ tree[i].module # <<>>
                   /\ Head(tree[i].module) \in unsupported_imports)
                      => \E k \in DOMAIN errors :
                             errors[k].message = "Unsupported import: " \o Head(tree[i].module)
        /\ \A k \in DOMAIN errors : errors[k].message # "Unsupported import: os"

\* The return statements inside a function, nested functions included.
ReturnsIn(node) == SelectSeq(Preorder(node.body), LAMBDA stmt : stmt.kind = "Return")

\* C19: for every return statement inside an extracted handler, validate()
\* reports an error on that statement when it has no value ('empty return
\* statement') or a literal of a non-string type ('returns non-string value'
\* with the type's name), and no error on it when its value is a string
\* literal.
C19_ReturnShape ==
    pc = "validated" =>
        \A k \in DOMAIN routes :
            LET name == routes[k].handler
                rets == ReturnsIn(routes[k].function)
            IN  \A r \in DOMAIN rets :
                    /\ rets[r].value = NoNode =>
                           HasError("Handler '" \o name \o "' has empty return statement",
                                    rets[r].lineno)
                    /\ (/\ rets[r].value # NoNode
                        /\ rets[r].value.kind = "Constant"
                        /\ rets[r].value.type # "str") =>
                           HasError("Handler '" \o name \o "' returns non-string value: "
                                        \o rets[r].value.type, rets[r].lineno)
                    /\ (/\ rets[r].value # NoNode
                        /\ rets[r].value.kind = "Constant"
                        /\ rets[r].value.type = "str") =>
                           \A e \in DOMAIN errors : errors[e].line # rets[r].lineno

\* A handler returning 42 and then "x" and a handler with a bare return have
\* been validated: two errors, on the lines of return 42 and of the bare
\* return.
C19_Witness ==
    /\ pc = "validated"
    /\ \E a, b \in DOMAIN routes :
           /\ routes[a].handler = "num"
           /\ routes[b].handler = "empty"
           /\ HasError("Handler 'num' returns non-string value: int",
                       routes[a].function.body[1].lineno)
           /\ HasError("Handler 'empty' has empty return statement",
                       routes[b].function.body[1].lineno)
           /\ \A e \in DOMAIN errors : errors[e].line # routes[a].function.body[2].lineno

\* C20: for every extracted one-parameter handler, a return annotation that
\* does not name str gives a 'must return str' error, no return annotation
\* gives a warning and no such error, and an annotation naming str gives
\* neither.
C20_ReturnAnnotation ==
    pc = "validated" =>
        \A k \in DOMAIN routes :
            LET node == routes[k].function
                hint == HasWarning("Handler '" \o node.name \o "' missing return type hint",
                                   node.lineno)
            IN  Len(node.args) = 1 =>
                    /\ (node.returns # NoNode /\ node.returns # Name("str"))
                           => MustReturnStrError(node)
                    /\ node.returns = NoNode => (hint /\ ~MustReturnStrError(node))
                    /\ node.returns = Name("str") => (~hint /\ ~MustReturnStrError(node))

\* A parameter-type error for the handler, whatever type it says it got.
ParameterTypeError(node) ==
    \E k \in DOMAIN errors :
        /\ errors[k].line = node.lineno
        /\ errors[k].message \in
               {"Handler '" \o node.name \o "' parameter must be of type 'Request', got '"
                    \o got \o "'" : got \in {"int", "builtins.int"}}

\* C21: for every extracted one-parameter handler, a parameter annotation
\* that does not name Request gives an error for it, and a parameter without
\* annotation gives a warning and no such error.
C21_ParameterAnnotation ==
    pc = "validated" =>
        \A k \in DOMAIN routes :
            LET node == routes[k].function
            IN  Len(node.args) = 1 =>
                    /\ (node.args[1].annotation # NoNode
                        /\ node.args[1].annotation # Name("Request"))
                           => ParameterTypeError(node)
                    /\ node.args[1].annotation = NoNode =>
                           /\ HasWarning("Handler '" \o node.name \o "' parameter '"
                                             \o node.args[1].arg \o "' missing type hint",
                                         node.lineno)
                           /\ ~ParameterTypeError(node)

(***************************************************************************)
(* Properties of the generator (SpecGenerate)                              *)
(***************************************************************************)
Generated == pc = "generated"

\* The registration block of the generated program.
RegistrationBlock == SelectSeq(generated, LAMBDA stmt : stmt.section = "register")

\* The number of registration statements due to the routes before the k-th.
RECURSIVE StatementsBefore(_)
StatementsBefore(k) ==
    IF k <= 1 THEN 0 ELSE StatementsBefore(k - 1) + Len(routes[k - 1].methods)

StartsWith(text, prefix) ==
    Len(text) >= Len(prefix) /\ SubSeq(text, 1, Len(prefix)) = prefix

\* The section is the text of a definition of the handler.
Defines(stmt, handler) ==
    /\ stmt.section = "handler"
    /\ StartsWith(stmt.text, "\ndef " \o handler \o "(")

\* C23: the generated program is the runtime template, then one handler
\* definition for every route in extraction order, then the application
\* bootstrap, then the registration block, then the entry-point invocation;
\* so every definition of a handler precedes every registration naming it.
C23_Composition ==
    Generated =>
        LET n == Len(routes)
            last == Len(generated)
        IN  /\ last = n + Len(RegistrationBlock) + 3
            /\ generated[1].section = "template"
            /\ \A k \in 1..n : Defines(generated[k + 1], routes[k].handler)
            /\ generated[n + 2].section = "setup"
            /\ \A i \in (n + 3)..(last - 1) : generated[i].section = "register"
            /\ generated[last].section = "run"
            /\ \A d, r \in DOMAIN generated :
                   (/\ generated[r].section = "register"
                    /\ Defines(generated[d], generated[r].handler)) => d < r

\* A program was generated from a function with two routing decorators: it
\* has two definitions of that function.
C23_Witness ==
    /\ Generated
    /\ Len(routes) >= 2
    /\ routes[1].function = routes[2].function
    /\ Defines(generated[2], "both")
    /\ Defines(generated[3], "both")

\* The header generate_handler_code gives the definition of the handler.
Header(handler) == "\ndef " \o handler \o "(request: Request) -> str:\n"

\* The body of the definition in a handler section.
BodyOf(stmt, handler) ==
    SubSeq(stmt.text, Len(Header(handler)) + 1, Len(stmt.text) - 1)

\* A return of a string literal, and one of a string literal or an f-string.
ReturnsLiteral(node) ==
    node.kind = "Return" /\ node.value.kind = "Constant" /\ node.value.type = "str"
RecognizedReturn(node) ==
    ReturnsLiteral(node) \/ (node.kind = "Return" /\ node.value.kind = "JoinedStr")

Fallback(handler) == "    return \"Response from " \o handler \o "\""

\* C24: every generated handler body has a return statement, and it is
\* exactly the fallback return of "Response from <handler>" when, and only
\* when, the handler has no top-level return of a string literal or f-string.
C24_FallbackReturn ==
    Generated =>
        \A k \in DOMAIN routes :
            LET body == routes[k].function.body
                text == BodyOf(generated[k + 1], routes[k].handler)
            IN  /\ StartsWith(generated[k + 1].text, Header(routes[k].handler))
                /\ StartsWith(text, "    return ")
                /\ (text = Fallback(routes[k].handler))
                       <=> (\A i \in DOMAIN body : ~RecognizedReturn(body[i]))

\* The lines of a text, from the line starting at start, reading on from i.
RECURSIVE LinesFrom(_, _, _)
LinesFrom(text, start, i) ==
    IF i > Len(text) THEN <<SubSeq(text, start, Len(text))>>
    ELSE IF SubSeq(text, i, i) = "\n"
    THEN <<SubSeq(text, start, i - 1)>> \o LinesFrom(text, i + 1, i + 1)
    ELSE LinesFrom(text, start, i + 1)

\* Where the string literal that is open at i closes: the first quote that
\* no backslash escapes, or 0 when the line ends first.
RECURSIVE ClosingQuote(_, _)
ClosingQuote(line, i) ==
    IF i > Len(line) THEN 0
    ELSE IF SubSeq(line, i, i) = "\\" THEN ClosingQuote(line, i + 2)
    ELSE IF SubSeq(line, i, i) = "\"" THEN i
    ELSE ClosingQuote(line, i + 1)

\* The literal a line of the generated program returns, when the line is
\* the return of one string literal and nothing else.
ReadReturn(line) ==
    LET open == "    return \""
        close == ClosingQuote(line, Len(open) + 1)
    IN  IF StartsWith(line, open) /\ close = Len(line)
        THEN <<SubSeq(line, Len(open) + 1, close - 1)>>
        ELSE <<>>

\* The values of the top-level returns of string literals, in source order.
RECURSIVE LiteralReturns(_)
LiteralReturns(body) ==
    IF body = <<>> THEN <<>>
    ELSE (IF ReturnsLiteral(Head(body)) THEN <<<<Head(body).value.value>>>> ELSE <<>>)
         \o LiteralReturns(Tail(body))

\* a is b with some of its members left out.
RECURSIVE IsSubsequence(_, _)
IsSubsequence(a, b) ==
    IF a = <<>> THEN TRUE
    ELSE IF b = <<>> THEN FALSE
    ELSE IF Head(a) = Head(b) THEN IsSubsequence(Tail(a), Tail(b))
    ELSE IsSubsequence(a, Tail(b))

\* C25: the definition generated for a handler with top-level returns of
\* string literals has the handler's name and the signature
\* (request: Request) -> str, and its return statements carry those same
\* literals, in source order.
C25_LiteralReturns ==
    Generated =>
        \A k \in DOMAIN routes :
            LET literals == LiteralReturns(routes[k].function.body)
                lines == LinesFrom(BodyOf(generated[k + 1], routes[k].handler), 1, 1)
            IN  literals # <<>> =>
                    /\ StartsWith(generated[k + 1].text, Header(routes[k].handler))
                    /\ IsSubsequence(literals,
                                     [i \in DOMAIN lines |-> ReadReturn(lines[i])])

(***************************************************************************)
(* Properties of the request dispatch (SpecRuntime)                        *)
(***************************************************************************)
\* C26: the runtime answers a request by its (method, path): with 404 and no
\* handler called when nothing is registered for it; otherwise the handler
\* registered for it (by the latest registration) is the one handler
\* called, once, and the answer is 500 when it raises and 200 when it
\* returns.
C26_Dispatch ==
    (exchange # <<>> /\ exchange[1].request # None) =>
        LET e == exchange[1]
            key == <<e.request[1].method, e.request[1].path>>
        IN  IF CallsOfKey(key) = {}
            THEN e.response.status = 404 /\ e.invoked = <<>>
            ELSE /\ e.invoked = <<calls[LastOf(CallsOfKey(key))].func>>
                 /\ e.behaviour.raises => e.response.status = 500
                 /\ ~e.behaviour.raises => e.response.status = 200

\* A request for a key registered twice, with different handlers, was
\* answered by a handler that raised.
C26_Witness ==
    /\ exchange # <<>>
    /\ exchange[1].request = Some(Request("POST", "/x"))
    /\ exchange[1].behaviour.raises
    /\ exchange[1].response.status = 500
    /\ Len(calls) = 2
    /\ calls[1].func # calls[2].func
    /\ CallsOfKey(<<"POST", "/x">>) = {1, 2}

(***************************************************************************)
(* The order of the stages of a build (Spec)                               *)
(***************************************************************************)
\* The place of each position of build in the pipeline: the prerequisite
\* checks, reading the source and extracting its routes, validation,
\* generation, compilation, the end of the run.
StageOf(position) ==
    CASE position = "start" -> 0
      [] position = "check_codon" -> 1
      [] position = "extract" -> 2
      [] position = "validate" -> 3
      [] position = "generate" -> 4
      [] position = "compile" -> 5
      [] position = "exited" -> 6
      [] OTHER -> 7

\* The stage the build is in has failed with this step.
StageFails ==
    \/ pc = "start" /\ ~python_file_exists
    \/ pc = "check_codon" /\ codon_calls'[Len(codon_calls')].result # Completed(0)
    \/ pc = "extract" /\ pc' # "extract" /\ routes = <<>>
    \/ pc = "validate" /\ errors' # <<>>
    \/ pc = "compile" /\ codon_calls'[Len(codon_calls')].result # Completed(0)

ConstantsAt(i) == visit_body(SubSeq(tree, 1, i - 1), NewExtractor).constants

\* C28: for every routing decorator with a path argument, the validator's
\* resolution of the path over the module and the extractor's resolution of
\* it at the moment it visits the decorator give a value in the same cases,
\* and the same value.
C28_SameResolution ==
    \A i \in DOMAIN tree :
        IsTopFunction(i) =>
            \A d \in DOMAIN tree[i].decorator_list :
                LET decorator == tree[i].decorator_list[d]
                IN  (decorator.kind = "Call" /\ decorator.args # <<>>) =>
                        _try_evaluate_expression(decorator.args[1], tree)
                            = _try_evaluate_path(decorator.args[1], ConstantsAt(i))

(***************************************************************************)
(* The tracked application binding (SpecDecorators)                        *)
(***************************************************************************)
\* A routing decorator on a bare identifier, with a literal path.
RoutingOnName(decorator) ==
    /\ DecoratorObject(decorator) # None
    /\ decorator.func.attr \in SUPPORTED_DECORATORS
    /\ decorator.args # <<>>
    /\ decorator.args[1].kind = "Constant"
    /\ decorator.args[1].type = "str"
    /\ decorator.args[1].value # ""

\* C29: the tracked binding is the target name of the most recently visited
\* name = TurboX() assignment, absent before the first; the routing
\* decorators of a function give a route exactly when their object is the
\* binding in effect when the function is visited, or when there is no
\* binding then, whatever bare identifier they are on.
C29_BindingInEffect ==
    /\ app_name = LastBinding(tree)
    /\ \A i \in DOMAIN tree :
           IsTopFunction(i) =>
               LET binding == LastBinding(SubSeq(tree, 1, i - 1))
                   list == tree[i].decorator_list
                   accepted == {d \in DOMAIN list :
                                   /\ RoutingOnName(list[d])
                                   /\ binding = None \/ DecoratorObject(list[d]) = binding}
                   got == RoutesOf(tree[i])
               IN  /\ Len(got) = Cardinality(accepted)
                   /\ \A d \in accepted : \E k \in DOMAIN got : RouteFrom(got[k], list[d])

\* After app = TurboX() and then api = TurboX() the binding is api, and the
\* function decorated through app that follows has no route.
C29_Witness ==
    /\ Len(tree) = 3
    /\ IsTurboXBinding(tree[1]) /\ tree[1].targets[1].id = "app"
    /\ IsTurboXBinding(tree[2]) /\ tree[2].targets[1].id = "api"
    /\ IsTopFunction(3) /\ tree[3].name = "right"
    /\ app_name = Some("api")
    /\ routes = <<>>

(***************************************************************************)
(* The registration keys (SpecGenerate)                                    *)
(***************************************************************************)
\* The key the generated program registers the pair under.
KeyOf(pair) == pair[1] \o ":" \o pair[2]

\* C30: the generated key identifies the (method, path) pair: two extracted
\* pairs that differ have different keys, so that the generated table has
\* one entry for each pair.
C30_KeyIdentifiesPair ==
    Generated =>
        /\ \A p, q \in AllPairs : p # q => KeyOf(p) # KeyOf(q)
        /\ Cardinality(DOMAIN RunRegistrations(generated)) = Cardinality(AllPairs)

====
